---- MODULE Spec2Model ----
(***************************************************************************)
(* MindMate-AI: the LangGraph workflow of src/MindMateAI/Workflow/         *)
(* workflow.py (GraphBuilder) driven by the /query handler of main.py.     *)
(*                                                                         *)
(* A Python str is a sequence of one-character strings, so that lower(),   *)
(* the `in` substring test and json.loads are computed on the text and not *)
(* assumed.  Every other Python value is a record [type, v, size]: v is    *)
(* the text of the value and size is what bool() looks at (length of a     *)
(* str, list or dict, 1/0 for True/False, 0 for None, 0 for the int 0).    *)
(***************************************************************************)
EXTENDS Integers, Sequences, FiniteSets, TLC

(* ----------------------------- Python values --------------------------- *)

Str(chars) == [type |-> "str", v |-> chars, size |-> Len(chars)]

PyTrue == [type |-> "bool", v |-> <<"T","r","u","e">>, size |-> 1]

PyFalse == [type |-> "bool", v |-> <<"F","a","l","s","e">>, size |-> 0]

PyNone == [type |-> "NoneType", v |-> <<"N","o","n","e">>, size |-> 0]

\* bool(x), the test behind `not x` and `if x`
Truthy(val) == val.size # 0

(* ----------------------------- str operations -------------------------- *)

LowerChar(c) ==
  CASE c = "A" -> "a" [] c = "B" -> "b" [] c = "C" -> "c" [] c = "D" -> "d"
    [] c = "E" -> "e" [] c = "F" -> "f" [] c = "G" -> "g" [] c = "H" -> "h"
    [] c = "I" -> "i" [] c = "J" -> "j" [] c = "K" -> "k" [] c = "L" -> "l"
    [] c = "M" -> "m" [] c = "N" -> "n" [] c = "O" -> "o" [] c = "P" -> "p"
    [] c = "Q" -> "q" [] c = "R" -> "r" [] c = "S" -> "s" [] c = "T" -> "t"
    [] c = "U" -> "u" [] c = "V" -> "v" [] c = "W" -> "w" [] c = "X" -> "x"
    [] c = "Y" -> "y" [] c = "Z" -> "z" [] OTHER -> c

\* str.lower()
lower(s) == [i \in 1..Len(s) |-> LowerChar(s[i])]

\* `needle in hay` on two str
contains(needle, hay) ==
  \E i \in 0..(Len(hay) - Len(needle)) : SubSeq(hay, i + 1, i + Len(needle)) = needle

(* ----------------------------- json.loads ------------------------------ *)
(* The decoder of the standard library on the JSON the stages meet:        *)
(* objects, arrays, strings without escapes, true, false, null and         *)
(* integers, with JSON whitespace.  The texts of this model stay inside    *)
(* that fragment (no backslash, no fraction, no exponent).                 *)

JsonWs == {" ", "\n", "\t", "\r"}

Digits == {"0", "1", "2", "3", "4", "5", "6", "7", "8", "9"}

\* the character at position i, "" past the end
At(s, i) == IF i \in 1..Len(s) THEN s[i] ELSE ""

StartsWith(s, i, lit) ==
  /\ i + Len(lit) - 1 <= Len(s)
  /\ SubSeq(s, i, i + Len(lit) - 1) = lit

RECURSIVE SkipWs(_, _)
SkipWs(s, i) == IF At(s, i) \in JsonWs THEN SkipWs(s, i + 1) ELSE i

\* position of the quote closing the string opened before j, 0 if none
RECURSIVE ScanString(_, _)
ScanString(s, j) ==
  IF j > Len(s) THEN 0
  ELSE IF s[j] = "\"" THEN j
  ELSE IF s[j] \in {"\\", "\n", "\t", "\r"} THEN 0
  ELSE ScanString(s, j + 1)

\* first position at or after j that holds no digit
RECURSIVE ScanDigits(_, _)
ScanDigits(s, j) == IF At(s, j) \in Digits THEN ScanDigits(s, j + 1) ELSE j

JsonFail == [ok |-> FALSE, pos |-> 0, val |-> PyNone, items |-> <<>>]

JsonOk(p, value, its) == [ok |-> TRUE, pos |-> p, val |-> value, items |-> its]

JsonNumber(s, i) ==
  LET d == IF At(s, i) = "-" THEN i + 1 ELSE i
      e == ScanDigits(s, d)
      digs == SubSeq(s, d, e - 1)
  IN  IF e = d \/ (e - d > 1 /\ s[d] = "0") \/ At(s, e) \in {".", "e", "E"}
      THEN JsonFail
      ELSE JsonOk(e, [type |-> "int", v |-> SubSeq(s, i, e - 1),
                      size |-> IF \A k \in 1..Len(digs) : digs[k] = "0" THEN 0 ELSE 1], <<>>)

JsonScalar(s, i) ==
  LET c == At(s, i) IN
  IF c = "\"" THEN
    LET j == ScanString(s, i + 1) IN
    IF j = 0 THEN JsonFail ELSE JsonOk(j + 1, Str(SubSeq(s, i + 1, j - 1)), <<>>)
  ELSE IF StartsWith(s, i, <<"t","r","u","e">>) THEN JsonOk(i + 4, PyTrue, <<>>)
  ELSE IF StartsWith(s, i, <<"f","a","l","s","e">>) THEN JsonOk(i + 5, PyFalse, <<>>)
  ELSE IF StartsWith(s, i, <<"n","u","l","l">>) THEN JsonOk(i + 4, PyNone, <<>>)
  ELSE IF c \in Digits \cup {"-"} THEN JsonNumber(s, i)
  ELSE JsonFail

RECURSIVE JsonValue(_, _), JsonElems(_, _, _, _), JsonMembers(_, _, _, _)

\* the value starting at position i
JsonValue(s, i) ==
  LET c == At(s, i) IN
  IF c = "[" THEN
    LET j == SkipWs(s, i + 1) IN
    IF At(s, j) = "]"
    THEN JsonOk(j + 1, [type |-> "list", v |-> SubSeq(s, i, j), size |-> 0], <<>>)
    ELSE JsonElems(s, j, i, 0)
  ELSE IF c = "{" THEN
    LET j == SkipWs(s, i + 1) IN
    IF At(s, j) = "}"
    THEN JsonOk(j + 1, [type |-> "dict", v |-> SubSeq(s, i, j), size |-> 0], <<>>)
    ELSE JsonMembers(s, j, i, <<>>)
  ELSE JsonScalar(s, i)

\* the elements of the array opened at i0, the next one starting at j
JsonElems(s, j, i0, n) ==
  LET e == JsonValue(s, j)
      k == SkipWs(s, e.pos)
  IN  IF ~e.ok THEN JsonFail
      ELSE IF At(s, k) = "," THEN JsonElems(s, SkipWs(s, k + 1), i0, n + 1)
      ELSE IF At(s, k) = "]"
      THEN JsonOk(k + 1, [type |-> "list", v |-> SubSeq(s, i0, k), size |-> n + 1], <<>>)
      ELSE JsonFail

\* the members of the object opened at i0, the next key starting at j
JsonMembers(s, j, i0, its) ==
  IF At(s, j) # "\"" THEN JsonFail
  ELSE
    LET key == JsonScalar(s, j)
        c == SkipWs(s, key.pos)
        e == JsonValue(s, SkipWs(s, c + 1))
        k == SkipWs(s, e.pos)
        more == Append(its, [k |-> key.val.v, val |-> e.val])
    IN  IF ~key.ok \/ At(s, c) # ":" THEN JsonFail
        ELSE IF ~e.ok THEN JsonFail
        ELSE IF At(s, k) = "," THEN JsonMembers(s, SkipWs(s, k + 1), i0, more)
        ELSE IF At(s, k) = "}"
        THEN JsonOk(k + 1, [type |-> "dict", v |-> SubSeq(s, i0, k), size |-> Len(more)], more)
        ELSE JsonFail

\* json.loads(s): ok = FALSE stands for json.JSONDecodeError
JsonLoads(s) ==
  LET r == JsonValue(s, SkipWs(s, 1)) IN
  IF r.ok /\ SkipWs(s, r.pos) = Len(s) + 1 THEN r ELSE JsonFail

\* dict.get(key) without a default: a missing key gives None
DictGet_none(its, key, default) ==
  LET idx == {i \in 1..Len(its) : its[i].k = key} IN
  IF idx = {} THEN PyNone
  ELSE its[CHOOSE i \in idx : \A j \in idx : j <= i].val

\* dict.get(key, default) on the members of a decoded object; a repeated key
\* keeps its last value, as the decoder builds the dict in order
DictGet(its, key, default) ==
  LET idx == {i \in 1..Len(its) : its[i].k = key} IN
  IF idx = {} THEN default
  ELSE its[CHOOSE i \in idx : \A j \in idx : j <= i].val

(* ----------------------------- texts ----------------------------------- *)

\* workflow.py:160, the message of handle_max_retries
FallbackText ==
  <<"I"," ","a","p","o","l","o","g","i","z","e",","," ","b","u","t"," ","I","'","m"," ","u","n","a","b","l","e"," ","t","o"," ","p","r","o","v","i","d","e"," ","a"," ","s","u","i","t","a","b","l","e"," ","r","e","s","p","o","n","s","e"," ","a","t"," ","t","h","i","s"," ","t","i","m","e","."," ","P","l","e","a","s","e"," ","c","o","n","s","i","d","e","r"," ","s","p","e","a","k","i","n","g"," ","w","i","t","h"," ","a"," ","q","u","a","l","i","f","i","e","d"," ","m","e","n","t","a","l"," ","h","e","a","l","t","h"," ","p","r","o","f","e","s","s","i","o","n","a","l"," ","f","o","r"," ","p","e","r","s","o","n","a","l","i","z","e","d"," ","s","u","p","p","o","r","t",".">>

W_anxiety == <<"a","n","x","i","e","t","y">>

W_depression == <<"d","e","p","r","e","s","s","i","o","n">>

W_sad == <<"s","a","d">>

W_anger == <<"a","n","g","e","r">>

W_angry == <<"a","n","g","r","y">>

W_fear == <<"f","e","a","r">>

W_scared == <<"s","c","a","r","e","d">>

W_joy == <<"j","o","y">>

W_happy == <<"h","a","p","p","y">>

W_neutral == <<"n","e","u","t","r","a","l">>

W_sadness == <<"s","a","d","n","e","s","s">>

EthicalMarkers ==
  << <<"h","a","r","m","f","u","l">>,
     <<"i","n","a","p","p","r","o","p","r","i","a","t","e">>,
     <<"u","n","e","t","h","i","c","a","l">>,
     <<"d","a","n","g","e","r","o","u","s">> >>

K_emotion == <<"e","m","o","t","i","o","n">>

K_ethical == <<"e","t","h","i","c","a","l">>

K_feedback == <<"f","e","e","d","b","a","c","k">>

ReviewCompleted ==
  <<"E","t","h","i","c","a","l"," ","r","e","v","i","e","w"," ","c","o","m","p","l","e","t","e","d">>

ConcernsIdentified ==
  <<"E","t","h","i","c","a","l"," ","c","o","n","c","e","r","n","s"," ","i","d","e","n","t","i","f","i","e","d"," ","i","n"," ","r","e","s","p","o","n","s","e">>

(* What the capability of each stage can answer.  The four free-text       *)
(* stages are not decoded by the graph, so short texts (the empty one      *)
(* included) stand for them; the two decoded stages get one text per       *)
(* branch of their decoding.                                              *)

\* {"emotion": "joy"}
EmotionJson ==
  <<"{","\"","e","m","o","t","i","o","n","\"",":"," ","\"","j","o","y","\"","}">>

\* {"mood": "sad"}
EmotionNoKey ==
  <<"{","\"","m","o","o","d","\"",":"," ","\"","s","a","d","\"","}">>

\* []
EmotionList == <<"[","]">>

\* Anxiety and depression
EmotionPlain ==
  <<"A","n","x","i","e","t","y"," ","a","n","d"," ","d","e","p","r","e","s","s","i","o","n">>

\* {"ethical": true, "feedback": "fine"}
EthicalPass ==
  <<"{","\"","e","t","h","i","c","a","l","\"",":"," ","t","r","u","e",","," ","\"","f","e","e","d","b","a","c","k","\"",":"," ","\"","f","i","n","e","\"","}">>

\* Looks fine
EthicalPlainPass ==
  <<"L","o","o","k","s"," ","f","i","n","e">>

\* {"ethical": "no"}
EthicalWord ==
  <<"{","\"","e","t","h","i","c","a","l","\"",":"," ","\"","n","o","\"","}">>

\* {"ethical": false, "feedback": "harmful"}
EthicalReject ==
  <<"{","\"","e","t","h","i","c","a","l","\"",":"," ","f","a","l","s","e",","," ","\"","f","e","e","d","b","a","c","k","\"",":"," ","\"","h","a","r","m","f","u","l","\"","}">>

\* This is Harmful
EthicalPlainReject ==
  <<"T","h","i","s"," ","i","s"," ","H","a","r","m","f","u","l">>

\* {"ethical": null}
EthicalNull ==
  <<"{","\"","e","t","h","i","c","a","l","\"",":"," ","n","u","l","l","}">>

\* [1]
EthicalList == <<"[","1","]">>

\* the number of distinct questions a request can carry
NumQueries == 1

\* the question of request i: i times the letter q
Query(i) == [k \in 1..i |-> "q"]

RewriteTexts == { <<"r","w">> }

EmotionTexts == { EmotionJson, EmotionList, EmotionPlain }

CbtTexts == { <<"c","1">>, <<"c","2">> }

ScheduleTexts == { <<"s","1">>, <<"s","2">> }

EthicalTexts ==
  { EthicalPass, EthicalPlainPass, EthicalWord,
    EthicalReject, EthicalPlainReject, EthicalList }

WriterTexts == { <<>>, <<"o","k">> }

(* ----------------------------- state ----------------------------------- *)

VARIABLES
  state,      \* the MentalHealthState dict the executor threads through the nodes
  pc,         \* the node the executor runs next, "END" after a terminal node
  err,        \* the exception that left react_app.invoke, "none" while there is none
  factories,  \* positional parameters of the factory bound to each create_* name
  invoked,    \* history: the nodes started so far, in order
  returned,   \* history: [node, content] of every capability answer, in order
  capFailed,  \* history: a capability call has failed
  done,       \* history: [node, ethical_check, retry_count] of every node return
  response,   \* what query_endpoint returned, status 0 while the graph runs
  slots,      \* concurrent requests: the execution each handler call holds
  requests    \* concurrent requests: where each call is, its answers, its response

vars == <<state, pc, err, factories, invoked, returned, capFailed, done, response,
          slots, requests>>

Stages ==
  {"rewrite", "emotion_analysis", "cbt_agent", "resource_schedule", "ethical_guardian", "writer"}

\* the role a stage writes into messages
Role(node) == IF node = "emotion_analysis" THEN "emotion_analyst" ELSE node

\* positional parameters of the create_* functions of src/MindMateAI/Agents:
\* create_cbt_agent() declares none, the five others declare `state`
RepositoryFactories == [n \in Stages |-> IF n = "cbt_agent" THEN 0 ELSE 1]

\* test doubles for the capabilities: every factory takes the state
StubFactories == [n \in Stages |-> 1]

\* create_<node>_agent(state): the call passes one positional argument
Constructs(fs, node) == fs[node] = 1

\* workflow.py:144, the retry ceiling of supervisor_routing
MaxRetries == 3

(* ----------------------------- the nodes ------------------------------- *)
(* Each node as the function State x capability answer -> State it is.     *)

\* a node returning only its own entry, as under an appending reducer
AddMessage_alone(st, role, content) == <<[role |-> role, content |-> content]>>

AddMessage(st, role, content) == Append(st.messages, [role |-> role, content |-> content])

\* rewrite_node putting the rewritten text in place of the query
rewrite_node_inplace(st, content) ==
  [st EXCEPT !.user_query = content,
             !.rewritten_query = content,
             !.messages = AddMessage(st, "rewrite", content)]

rewrite_node(st, content) ==
  [st EXCEPT !.rewritten_query = content,
             !.messages = AddMessage(st, "rewrite", content)]

\* the keyword chain asking for sadness before anxiety
EmotionKeywords_sad_first(content) ==
  LET t == lower(content) IN
  IF contains(W_depression, t) \/ contains(W_sad, t) THEN W_sadness
  ELSE IF contains(W_anxiety, t) THEN W_anxiety
  ELSE IF contains(W_anger, t) \/ contains(W_angry, t) THEN W_anger
  ELSE IF contains(W_fear, t) \/ contains(W_scared, t) THEN W_fear
  ELSE IF contains(W_joy, t) \/ contains(W_happy, t) THEN W_joy
  ELSE W_neutral

\* workflow.py:50-60, the keyword chain behind `except json.JSONDecodeError`
EmotionKeywords(content) ==
  LET t == lower(content) IN
  IF contains(W_anxiety, t) THEN W_anxiety
  ELSE IF contains(W_depression, t) \/ contains(W_sad, t) THEN W_sadness
  ELSE IF contains(W_anger, t) \/ contains(W_angry, t) THEN W_anger
  ELSE IF contains(W_fear, t) \/ contains(W_scared, t) THEN W_fear
  ELSE IF contains(W_joy, t) \/ contains(W_happy, t) THEN W_joy
  ELSE W_neutral

\* analysis.get(...) on a decoded value that is no dict: AttributeError,
\* which `except json.JSONDecodeError` does not catch
GetRaises(content) ==
  LET r == JsonLoads(content) IN r.ok /\ r.val.type # "dict"

\* emotion_analysis_node consulting the keywords whatever the answer is
emotion_analysis_node_keywords(st, content) ==
  LET r == JsonLoads(content)
      emotion == IF EmotionKeywords(content) # W_neutral THEN Str(EmotionKeywords(content))
                 ELSE IF r.ok THEN DictGet(r.items, K_emotion, Str(W_neutral))
                 ELSE Str(W_neutral)
  IN  [st EXCEPT !.emotion = emotion,
                 !.messages = AddMessage(st, "emotion_analyst", content)]

emotion_analysis_node(st, content) ==
  LET r == JsonLoads(content)
      emotion == IF r.ok THEN DictGet(r.items, K_emotion, Str(W_neutral))
                 ELSE Str(EmotionKeywords(content))
  IN  [st EXCEPT !.emotion = emotion,
                 !.messages = AddMessage(st, "emotion_analyst", content)]

\* cbt_agent_node keeping a response that is already there
cbt_agent_node_stale(st, content) ==
  [st EXCEPT !.cbt_response = IF st.cbt_response = <<>> THEN content ELSE st.cbt_response,
             !.messages = AddMessage(st, "cbt_agent", content)]

cbt_agent_node(st, content) ==
  [st EXCEPT !.cbt_response = content,
             !.messages = AddMessage(st, "cbt_agent", content)]

\* resource_schedule_node leaving a draft of the answer in final_output
resource_schedule_node_draft(st, content) ==
  [st EXCEPT !.schedule_recommendation = content,
             !.final_output = st.cbt_response \o content,
             !.messages = AddMessage(st, "resource_schedule", content)]

resource_schedule_node(st, content) ==
  [st EXCEPT !.schedule_recommendation = content,
             !.messages = AddMessage(st, "resource_schedule", content)]

\* the marker test on the answer as written, without lower()
EthicalConcern_cased(content) ==
  \E i \in 1..Len(EthicalMarkers) : contains(EthicalMarkers[i], content)

\* workflow.py:114, any(word in ethical_content.lower() for word in [...])
EthicalConcern(content) ==
  \E i \in 1..Len(EthicalMarkers) : contains(EthicalMarkers[i], lower(content))

\* ethical_guardian_node counting the rejection itself
ethical_guardian_node_counting(st, content) ==
  LET r == JsonLoads(content)
      check == IF r.ok THEN DictGet(r.items, K_ethical, PyTrue)
               ELSE IF EthicalConcern(content) THEN PyFalse ELSE PyTrue
      feedback == IF r.ok THEN DictGet(r.items, K_feedback, Str(<<>>))
                  ELSE IF EthicalConcern(content) THEN Str(ConcernsIdentified)
                  ELSE Str(ReviewCompleted)
  IN  [st EXCEPT !.ethical_check = check,
                 !.ethical_feedback = feedback,
                 !.retry_count = IF Truthy(check) THEN @ ELSE @ + 1,
                 !.messages = AddMessage(st, "ethical_guardian", content)]

ethical_guardian_node(st, content) ==
  LET r == JsonLoads(content)
      check == IF r.ok THEN DictGet(r.items, K_ethical, PyTrue)
               ELSE IF EthicalConcern(content) THEN PyFalse ELSE PyTrue
      feedback == IF r.ok THEN DictGet(r.items, K_feedback, Str(<<>>))
                  ELSE IF EthicalConcern(content) THEN Str(ConcernsIdentified)
                  ELSE Str(ReviewCompleted)
  IN  [st EXCEPT !.ethical_check = check,
                 !.ethical_feedback = feedback,
                 !.messages = AddMessage(st, "ethical_guardian", content)]

writer_agent_node(st, content) ==
  [st EXCEPT !.final_output = content,
             !.messages = AddMessage(st, "writer", content)]

\* supervisor_routing with the ceiling tested by > in place of >=
supervisor_routing_late(st) ==
  IF ~Truthy(st.ethical_check)
  THEN IF st.retry_count > MaxRetries THEN "max_retries" ELSE "ethical_fail"
  ELSE "ethical_pass"

supervisor_routing(st) ==
  IF ~Truthy(st.ethical_check)
  THEN IF st.retry_count >= MaxRetries THEN "max_retries" ELSE "ethical_fail"
  ELSE "ethical_pass"

\* increment_retry_counter counting every rejection twice
increment_retry_counter_twice(st) == [st EXCEPT !.retry_count = st.retry_count + 2]

increment_retry_counter(st) == [st EXCEPT !.retry_count = st.retry_count + 1]

\* handle_max_retries answering with the last therapeutic response
handle_max_retries_last(st) == [st EXCEPT !.final_output = st.cbt_response]

handle_max_retries(st) == [st EXCEPT !.final_output = FallbackText]

\* the table of add_conditional_edges with a rejection passed on to the Writer
ConditionalEdges_lenient ==
  [ethical_pass |-> "writer", ethical_fail |-> "writer",
   max_retries |-> "max_retries_handler"]

\* the table of add_conditional_edges
ConditionalEdges ==
  [ethical_pass |-> "writer", ethical_fail |-> "increment_retry",
   max_retries |-> "max_retries_handler"]

\* the add_edge table with the retry starting the whole pipeline again
Edge_restart(node) ==
  CASE node = "rewrite" -> "emotion_analysis"
    [] node = "emotion_analysis" -> "cbt_agent"
    [] node = "cbt_agent" -> "resource_schedule"
    [] node = "resource_schedule" -> "ethical_guardian"
    [] node = "increment_retry" -> "rewrite"
    [] node = "writer" -> "END"
    [] node = "max_retries_handler" -> "END"

\* the add_edge table: the one successor of every other node
Edge(node) ==
  CASE node = "rewrite" -> "emotion_analysis"
    [] node = "emotion_analysis" -> "cbt_agent"
    [] node = "cbt_agent" -> "resource_schedule"
    [] node = "resource_schedule" -> "ethical_guardian"
    [] node = "increment_retry" -> "cbt_agent"
    [] node = "writer" -> "END"
    [] node = "max_retries_handler" -> "END"

\* the node run after `node` with a retry reviewed on the schedule already made
Successor_shortcut(node, st) ==
  IF node = "ethical_guardian" THEN ConditionalEdges[supervisor_routing(st)]
  ELSE IF node = "cbt_agent" /\ st.retry_count > 0 THEN "ethical_guardian"
  ELSE Edge(node)

\* the node the compiled graph runs after `node` returned st
Successor(node, st) ==
  IF node = "ethical_guardian" THEN ConditionalEdges[supervisor_routing(st)]
  ELSE Edge(node)

(* ----------------------------- the executor ---------------------------- *)

\* query_endpoint up to react_app.invoke(initial_state): a fresh graph,
\* entered at START -> rewrite, and the initial_state literal of main.py
InitialState(question) ==
  [user_query |-> question,
   rewritten_query |-> <<>>,
   emotion |-> Str(<<>>),
   cbt_response |-> <<>>,
   schedule_recommendation |-> <<>>,
   ethical_check |-> PyTrue,
   ethical_feedback |-> Str(<<>>),
   final_output |-> <<>>,
   messages |-> <<>>,
   retry_count |-> 0,
   remaining_steps |-> 5]

NoResponse == [status |-> 0, key |-> "", text |-> <<>>]

\* the calls of query_endpoint that run at the same time, each with its own
\* question
Requests == {1, 2}

\* the locals of a call of query_endpoint before react_app.invoke
IdleSlot ==
  [state |-> InitialState(<<>>), active |-> {}, calls |-> {}, writes |-> {},
   err |-> "none"]

IdleRequest == [at |-> "idle", log |-> <<>>, response |-> NoResponse]

\* no request has arrived
NoRequests ==
  /\ slots = [r \in Requests |-> IdleSlot]
  /\ requests = [r \in Requests |-> IdleRequest]

Init ==
  /\ \E i \in 1..NumQueries : state = InitialState(Query(i))
  /\ pc = "rewrite"
  /\ err = "none"
  /\ factories \in {RepositoryFactories, StubFactories}
  /\ invoked = <<>>
  /\ returned = <<>>
  /\ capFailed = FALSE
  /\ done = <<>>
  /\ response = NoResponse
  /\ NoRequests

\* Raise with a transport failure answered by running the node again
RaiseRetried(e, ret) ==
  /\ err' = IF e = "CapabilityError" THEN "none" ELSE e
  /\ capFailed' = (capFailed \/ e = "CapabilityError")
  /\ returned' = ret
  /\ UNCHANGED <<state, pc, done>>

\* an exception leaves the node: none of its work is committed, the graph
\* has no retry policy and invoke() re-raises; ret is the capability log
Raise(e, ret) ==
  /\ err' = e
  /\ capFailed' = (capFailed \/ e = "CapabilityError")
  /\ returned' = ret
  /\ UNCHANGED <<state, pc, done>>

\* the node returned st: the executor commits it and follows the edge
Commit(node, st) ==
  /\ state' = st
  /\ pc' = Successor(node, st)
  /\ done' = Append(done, [node |-> node, ethical_check |-> st.ethical_check,
                           retry_count |-> st.retry_count])
  /\ UNCHANGED <<err, capFailed>>

\* the shape of the six stages: create the agent with the state, invoke it,
\* read the content of its last message, return the updated dict; `raises`
\* tells the answers on which the node raises after the call, Node(c) is the
\* dict it returns on answer c
Stage(node, texts, raises, Node) ==
  /\ err = "none"
  /\ invoked' = Append(invoked, node)
  /\ UNCHANGED <<factories, response, slots, requests>>
  /\ IF ~Constructs(factories, node) THEN Raise("TypeError", returned)
     ELSE \/ Raise("CapabilityError", returned)
          \/ \E content \in texts :
               LET ret == Append(returned, [node |-> node, content |-> content])
               IN  IF content \in raises THEN Raise("AttributeError", ret)
                   ELSE returned' = ret /\ Commit(node, Node[content])

rewrite ==
  /\ pc = "rewrite"
  /\ Stage("rewrite", RewriteTexts, {},
           [c \in RewriteTexts |-> rewrite_node(state, c)])

emotion_analysis ==
  /\ pc = "emotion_analysis"
  /\ Stage("emotion_analysis", EmotionTexts, {c \in EmotionTexts : GetRaises(c)},
           [c \in EmotionTexts |-> emotion_analysis_node(state, c)])

cbt_agent ==
  /\ pc = "cbt_agent"
  /\ Stage("cbt_agent", CbtTexts, {},
           [c \in CbtTexts |-> cbt_agent_node(state, c)])

resource_schedule ==
  /\ pc = "resource_schedule"
  /\ Stage("resource_schedule", ScheduleTexts, {},
           [c \in ScheduleTexts |-> resource_schedule_node(state, c)])

ethical_guardian ==
  /\ pc = "ethical_guardian"
  /\ Stage("ethical_guardian", EthicalTexts, {c \in EthicalTexts : GetRaises(c)},
           [c \in EthicalTexts |-> ethical_guardian_node(state, c)])

writer ==
  /\ pc = "writer"
  /\ Stage("writer", WriterTexts, {},
           [c \in WriterTexts |-> writer_agent_node(state, c)])

\* the two nodes that call no capability; st is the dict the node returns
Plain(node, st) ==
  /\ err = "none"
  /\ invoked' = Append(invoked, node)
  /\ Commit(node, st)
  /\ UNCHANGED <<factories, response, returned, slots, requests>>

\* increment_retry recording itself in the trace like a stage
increment_retry_traced ==
  /\ pc = "increment_retry"
  /\ Plain("increment_retry",
           [increment_retry_counter(state) EXCEPT
              !.messages = AddMessage(state, "increment_retry", <<>>)])

increment_retry ==
  /\ pc = "increment_retry"
  /\ Plain("increment_retry", increment_retry_counter(state))

\* max_retries_handler recording its answer in the trace like a stage
max_retries_handler_traced ==
  /\ pc = "max_retries_handler"
  /\ Plain("max_retries_handler",
           [handle_max_retries(state) EXCEPT
              !.messages = AddMessage(state, "max_retries_handler", FallbackText)])

max_retries_handler ==
  /\ pc = "max_retries_handler"
  /\ Plain("max_retries_handler", handle_max_retries(state))

\* query_endpoint answering an exception with its text as the answer
query_endpoint_lenient ==
  /\ response = NoResponse
  /\ \/ /\ pc = "END" /\ err = "none"
        /\ response' = [status |-> 200, key |-> "answer", text |-> state.final_output]
     \/ /\ err # "none"
        /\ response' = [status |-> 200, key |-> "answer", text |-> <<>>]
  /\ UNCHANGED <<state, pc, err, factories, invoked, returned, capFailed, done,
                 slots, requests>>

\* main.py:44-54: the answer of the handler once invoke() returned or raised
query_endpoint ==
  /\ response = NoResponse
  /\ \/ /\ pc = "END" /\ err = "none"
        /\ response' = [status |-> 200, key |-> "answer", text |-> state.final_output]
     \/ /\ err # "none"
        /\ response' = [status |-> 500, key |-> "error", text |-> <<>>]
  /\ UNCHANGED <<state, pc, err, factories, invoked, returned, capFailed, done,
                 slots, requests>>

Next ==
  \/ rewrite
  \/ emotion_analysis
  \/ cbt_agent
  \/ resource_schedule
  \/ ethical_guardian
  \/ writer
  \/ increment_retry
  \/ max_retries_handler
  \/ query_endpoint

Spec == Init /\ [][Next]_vars

\* every capability call returns or fails and the executor then runs the
\* next node: no step that is enabled is postponed for ever
FairSpec == Spec /\ WF_vars(Next)

TypeOK ==
  /\ pc \in Stages \cup {"increment_retry", "max_retries_handler", "END"}
  /\ err \in {"none", "CapabilityError", "TypeError", "AttributeError"}
  /\ state.retry_count \in 0..MaxRetries

(* ----------------------------- observations ---------------------------- *)

\* how many entries of the history h are about node n
Count(h, n) == Cardinality({i \in 1..Len(h) : h[i].node = n})

\* how many times node n was started
Started(n) == Cardinality({i \in 1..Len(invoked) : invoked[i] = n})

\* the roles of the trace, in order
Roles == [i \in 1..Len(state.messages) |-> state.messages[i].role]

\* the ethical_check every completed EthicalReview left, in order
Reviews ==
  LET Rev(e) == e.node = "ethical_guardian"
      r == SelectSeq(done, Rev)
  IN  [i \in 1..Len(r) |-> r[i].ethical_check]

\* the answers of the TherapeuticResponse capability, in order
CbtAnswers ==
  LET Cbt(e) == e.node = "cbt_agent"
      r == SelectSeq(returned, Cbt)
  IN  [i \in 1..Len(r) |-> r[i].content]

\* invoke() returned the final state
Ended == pc = "END" /\ err = "none"

\* invoke() returned or raised
Terminated == pc = "END" \/ err # "none"

WriterRan == Count(done, "writer") > 0

FallbackRan == Count(done, "max_retries_handler") > 0

(* ----------------------------- C1 -------------------------------------- *)

\* C1: in every execution from the entry state the TherapeuticResponse stage
\* (node cbt_agent) is invoked at most 4 times, whatever the capabilities answer.
C1_AtMostFourAttempts == Started("cbt_agent") <= 4

\* a fourth attempt does happen
C1_FourthAttempt == Started("cbt_agent") = 4 /\ state.retry_count = 3

(* ----------------------------- C2 -------------------------------------- *)

\* C2: an execution ends in exactly one of three outcomes: the Writer has
\* run, the FallbackHandler has run, or a CapabilityError (the failure of a
\* capability call) has been raised.
C2_ThreeOutcomes ==
  Terminated =>
    \/ WriterRan /\ ~FallbackRan /\ err = "none"
    \/ ~WriterRan /\ FallbackRan /\ err = "none"
    \/ ~WriterRan /\ ~FallbackRan /\ err = "CapabilityError" /\ capFailed

(* ----------------------------- C3 -------------------------------------- *)

\* C3: routing happens only after EthicalReview completed; the next node is
\* Writer if ethical_check == true, else FallbackHandler if retry_count >= 3,
\* else IncrementRetry, whose only successor is TherapeuticResponse.
C3_Routing ==
  [][ /\ (pc = "ethical_guardian" /\ pc' # pc) =>
           pc' = IF state'.ethical_check = PyTrue THEN "writer"
                 ELSE IF state'.retry_count >= 3 THEN "max_retries_handler"
                 ELSE "increment_retry"
      /\ (pc' # pc /\ pc' \in {"writer", "max_retries_handler", "increment_retry"}) =>
           pc = "ethical_guardian"
      /\ (pc = "increment_retry" /\ pc' # pc) => pc' = "cbt_agent" ]_vars

(* ----------------------------- C4 -------------------------------------- *)

AllRejected == \A i \in 1..Len(Reviews) : Reviews[i] = PyFalse

\* C4: the execution terminates, and when every EthicalReview of it reported
\* ethical_check = false it ends with retry_count = 3 and final_output equal
\* to the fixed fallback text.
C4_AlwaysRejected ==
  /\ <>Terminated
  /\ [](Ended /\ AllRejected => state.retry_count = 3 /\ state.final_output = FallbackText)

\* four rejections in a row, answered by the fallback
C4_FourRejections ==
  Ended /\ AllRejected /\ Len(Reviews) = 4 /\ FallbackRan /\ response.status = 200

(* ----------------------------- C5 -------------------------------------- *)

\* C5: when the first EthicalReview reports ethical_check = true, the trace
\* at termination has exactly the 6 entries rewrite, emotion_analyst,
\* cbt_agent, resource_schedule, ethical_guardian, writer, in this order,
\* and final_output is non-empty.
C5_HappyPath ==
  (Ended /\ Len(Reviews) >= 1 /\ Reviews[1] = PyTrue) =>
    /\ Roles = <<"rewrite", "emotion_analyst", "cbt_agent", "resource_schedule",
                 "ethical_guardian", "writer">>
    /\ state.final_output # <<>>

(* ----------------------------- C6 -------------------------------------- *)

RECURSIVE Attempts(_)
Attempts(n) ==
  IF n = 0 THEN <<>>
  ELSE <<"cbt_agent", "resource_schedule", "ethical_guardian">> \o Attempts(n - 1)

\* k rejections, then an approval
RejectedThenApproved(k) ==
  /\ Len(Reviews) = k + 1
  /\ \A i \in 1..k : Reviews[i] = PyFalse
  /\ Reviews[k + 1] = PyTrue

\* the retry_count every IncrementRetry left, in order
Increments ==
  LET Inc(e) == e.node = "increment_retry"
      r == SelectSeq(done, Inc)
  IN  [i \in 1..Len(r) |-> r[i].retry_count]

\* C6: for k in 0..3, an execution with k rejections followed by an approval
\* ends at Writer with retry_count = k, raised by 1 once per rejection, with
\* the therapeutic response of attempt k+1, and with the 6 + 3k trace entries
\* rewrite, emotion_analyst, k+1 times (cbt_agent, resource_schedule,
\* ethical_guardian), writer.
C6_RetryEvolution ==
  \A k \in 0..3 :
    (Ended /\ RejectedThenApproved(k)) =>
      /\ WriterRan /\ ~FallbackRan
      /\ state.retry_count = k
      /\ Increments = [i \in 1..k |-> i]
      /\ Len(CbtAnswers) = k + 1
      /\ state.cbt_response = CbtAnswers[k + 1]
      /\ Len(state.messages) = 6 + 3 * k
      /\ Roles = <<"rewrite", "emotion_analyst">> \o Attempts(k + 1) \o <<"writer">>

\* three rejections, then an approval of a response that differs from the
\* one rejected last
C6_ThreeRetries ==
  /\ Ended /\ RejectedThenApproved(3)
  /\ CbtAnswers[4] # CbtAnswers[3]
  /\ Len(state.messages) = 15

(* ----------------------------- C7 -------------------------------------- *)

\* C7: at every termination that is not an error final_output is non-empty,
\* for every text the Writer's capability can return.
C7_FinalOutputNonEmpty == Ended => state.final_output # <<>>

(* ----------------------------- C8 -------------------------------------- *)

\* C8: when the capability call of a stage fails the execution aborts there:
\* the stage is not invoked again, no later stage is invoked, retry_count is
\* not raised and no final_output is produced.
C8_AbortOnFailure ==
  [][ /\ (capFailed' /\ ~capFailed) =>
           (err' = "CapabilityError" /\ state' = state /\ pc' = pc /\ done' = done)
      /\ capFailed =>
           /\ invoked' = invoked /\ returned' = returned /\ done' = done
           /\ state' = state /\ pc' = pc
           /\ response'.key # "answer"
      /\ capFailed' => state'.final_output = <<>> ]_vars

\* a capability failed during a retry, and the handler has answered
C8_FailedInRetry ==
  capFailed /\ err = "CapabilityError" /\ state.retry_count > 0 /\ response.status = 500

(* ----------------------------- C9 -------------------------------------- *)

\* C9: the only way an execution fails is the failure of a capability call:
\* when every capability call returns a text, every stage, the construction
\* of its agent included, completes.
C9_OnlyCapabilityFailures == ~capFailed => err = "none"

(* ----------------------------- C10 ------------------------------------- *)

\* C10: for every text the capability returns, EmotionAnalysis and
\* EthicalReview complete without raising.
C10_DecodingNeverRaises ==
  \A n \in {"emotion_analysis", "ethical_guardian"} : Count(returned, n) = Count(done, n)

(* ----------------------------- C11 ------------------------------------- *)

\* the step of node n that commits its result
Completes(n) == pc = n /\ Len(done') = Len(done) + 1

\* C11: the FallbackHandler sets final_output to one fixed apology-and-
\* referral text, the same for every input state; it makes no capability
\* call, appends nothing to the trace and changes no other field.
C11_FallbackFrame ==
  [][ Completes("max_retries_handler") =>
        /\ state'.final_output = FallbackText
        /\ \A f \in (DOMAIN state) \ {"final_output"} : state'[f] = state[f]
        /\ DOMAIN state' = DOMAIN state
        /\ returned' = returned ]_vars

\* the handler has run on a state holding an emotion, a fourth therapeutic
\* response and a trace of fourteen entries
C11_FallbackDone ==
  /\ FallbackRan
  /\ state.final_output = FallbackText
  /\ state.cbt_response = <<"c", "2">>
  /\ state.emotion = Str(W_anxiety)
  /\ Len(state.messages) = 14

(* ----------------------------- C12 ------------------------------------- *)

\* the roles of the completed invocations of the six stages, in order
StageRoles ==
  LET IsStage(e) == e.node \in Stages
      r == SelectSeq(done, IsStage)
  IN  [i \in 1..Len(r) |-> Role(r[i].node)]

IsPrefix(s, t) == Len(s) <= Len(t) /\ \A i \in 1..Len(s) : s[i] = t[i]

\* C12: in every reachable state the roles of the trace are, in order, the
\* stage invocations completed so far, repeats included, so the trace is as
\* long as their number; and every step leaves the previous trace a prefix
\* of the new one.
C12_TraceIsStageLog ==
  /\ [](Roles = StageRoles)
  /\ [][IsPrefix(state.messages, state'.messages)]_vars

\* a trace with a repeated stage: two complete rounds and the start of a third
C12_RepeatedStages ==
  /\ Len(state.messages) = 9
  /\ Roles[3] = "cbt_agent" /\ Roles[6] = "cbt_agent" /\ Roles[9] = "cbt_agent"
  /\ Count(done, "increment_retry") = 2

(* ----------------------------- C13 ------------------------------------- *)

\* C13: retry_count never decreases, and the only step that changes it is
\* IncrementRetry: the six stages and the FallbackHandler leave it unchanged.
C13_RetryCountMonotone ==
  [][ /\ state'.retry_count >= state.retry_count
      /\ state'.retry_count # state.retry_count => Completes("increment_retry")
      /\ \A n \in Stages \cup {"max_retries_handler"} :
           Completes(n) => state'.retry_count = state.retry_count ]_vars

\* the count has been raised three times and the FallbackHandler has run
C13_RaisedThrice == state.retry_count = 3 /\ FallbackRan /\ Started("cbt_agent") = 4

(* ----------------------------- C14 ------------------------------------- *)

\* the fields each stage owns (therapeutic_response is the field cbt_response)
Owned(n) ==
  CASE n = "rewrite" -> {"rewritten_query"}
    [] n = "emotion_analysis" -> {"emotion"}
    [] n = "cbt_agent" -> {"cbt_response"}
    [] n = "resource_schedule" -> {"schedule_recommendation"}
    [] n = "ethical_guardian" -> {"ethical_check", "ethical_feedback"}
    [] n = "writer" -> {"final_output"}

\* C14: the state a stage returns equals its input except for the fields the
\* stage owns and one appended trace entry holding the stage's role and the
\* raw capability output; user_query keeps its entry value throughout.
C14_StageFrame ==
  [][ /\ \A n \in Stages :
           Completes(n) =>
             /\ DOMAIN state' = DOMAIN state
             /\ \A f \in (DOMAIN state) \ (Owned(n) \cup {"messages"}) :
                  state'[f] = state[f]
             /\ Len(returned') = Len(returned) + 1
             /\ returned'[Len(returned')].node = n
             /\ state'.messages =
                  Append(state.messages,
                         [role |-> Role(n), content |-> returned'[Len(returned')].content])
      /\ state'.user_query = state.user_query ]_vars

\* all six stages have completed, two of them twice, and the query is the
\* one the execution was entered with
C14_AllStagesDone ==
  /\ WriterRan /\ state.retry_count = 1
  /\ \A n \in Stages : Count(done, n) >= 1
  /\ state.user_query = Query(1)
  /\ state.rewritten_query # state.user_query

(* ----------------------------- C17 ------------------------------------- *)

\* the text the Writer capability returned
WriterAnswer ==
  LET Wr(e) == e.node = "writer"
      r == SelectSeq(returned, Wr)
  IN  r[Len(r)].content

\* C17: at the request handler a failed execution is answered with HTTP 500
\* and an error body without an answer; an execution whose retries are
\* exhausted is answered normally with the fixed fallback text as the answer;
\* on the success path the answer is the Writer's final_output.
C17_HandlerAnswers ==
  response # NoResponse =>
    /\ Terminated
    /\ err # "none" => response.status = 500 /\ response.key = "error"
    /\ (err = "none" /\ FallbackRan) =>
         response = [status |-> 200, key |-> "answer", text |-> FallbackText]
    /\ (err = "none" /\ WriterRan) =>
         response = [status |-> 200, key |-> "answer", text |-> WriterAnswer]

\* the handler has answered an execution that exhausted its retries
C17_FallbackAnswered ==
  /\ response.status = 200 /\ response.text = FallbackText
  /\ FallbackRan /\ state.retry_count = MaxRetries

(* -------------------- the two decoding stages, closely ----------------- *)
(* EmotionAnalysis and EthicalReview applied to many answers: the          *)
(* execution is taken up where the stage is entered in the first round.    *)

\* {"emotion": "calm", "note": "anxiety"}
EmotionMarked ==
  <<"{","\"","e","m","o","t","i","o","n","\"",":"," ","\"","c","a","l","m","\"",","," ","\"","n","o","t","e","\"",":"," ","\"","a","n","x","i","e","t","y","\"","}">>

\* {"ethical": true, "feedback": "not harmful"}
EthicalMarked ==
  <<"{","\"","e","t","h","i","c","a","l","\"",":"," ","t","r","u","e",","," ","\"","f","e","e","d","b","a","c","k","\"",":"," ","\"","n","o","t"," ","h","a","r","m","f","u","l","\"","}">>

\* {"mood": "anxiety"}
EmotionNoKeyMarked ==
  <<"{","\"","m","o","o","d","\"",":"," ","\"","a","n","x","i","e","t","y","\"","}">>

\* {"verdict": "harmful and dangerous"}
EthicalNoKeyMarked ==
  <<"{","\"","v","e","r","d","i","c","t","\"",":"," ","\"","h","a","r","m","f","u","l"," ","a","n","d"," ","d","a","n","g","e","r","o","u","s","\"","}">>

\* {}
EthicalEmpty ==
  <<"{","}">>

\* the words the answers are made of: the keywords of workflow.py:51-59 and
\* 114 in several spellings, words that contain one, and words that do not
EmotionWords ==
  { W_anxiety, W_depression, W_sad, W_anger, W_angry, W_fear, W_scared, W_joy,
    W_happy, <<"A","n","x","i","e","t","y">>,
    <<"D","E","P","R","E","S","S","I","O","N">>, <<"A","N","G","R","Y">>,
    <<"f","e","a","r","f","u","l">>, <<"e","n","j","o","y">>, <<"c","a","l","m">> }

EthicalWords ==
  { EthicalMarkers[1], EthicalMarkers[2], EthicalMarkers[3], EthicalMarkers[4],
    <<"H","a","r","m","f","u","l">>, <<"D","A","N","G","E","R","O","U","S">>,
    <<"e","t","h","i","c","a","l">>, <<"h","a","r","m">>, <<"s","a","f","e">> }

\* the longest answer, in words
MaxWords == 2

RECURSIVE Join(_)
Join(ws) ==
  IF ws = <<>> THEN <<>>
  ELSE IF Len(ws) = 1 THEN ws[1]
  ELSE ws[1] \o <<" ">> \o Join(Tail(ws))

Phrases(words) == { Join(ws) : ws \in UNION { [1..k -> words] : k \in 0..MaxWords } }

DecodeEmotionTexts ==
  EmotionTexts \cup {EmotionNoKey, EmotionMarked, EmotionNoKeyMarked}
    \cup Phrases(EmotionWords)

DecodeEthicalTexts ==
  EthicalTexts \cup {EthicalNull, EthicalMarked, EthicalNoKeyMarked, EthicalEmpty}
    \cup Phrases(EthicalWords)

\* the entries the executor's histories hold for a returned call and a commit
Returned(node, content) == [node |-> node, content |-> content]

Done(node, st) ==
  [node |-> node, ethical_check |-> st.ethical_check, retry_count |-> st.retry_count]

\* the executions as EmotionAnalysis is entered, and as EthicalReview is
\* entered for the first time, with the executor's histories; the emotion
\* answer of the latter is EmotionPlain, on which emotion_analysis_node takes
\* the keyword chain
Entering ==
  UNION { LET s1 == rewrite_node(InitialState(Query(1)), rw) IN
          { [state |-> s1, pc |-> "emotion_analysis",
             invoked |-> <<"rewrite">>,
             returned |-> <<Returned("rewrite", rw)>>,
             done |-> <<Done("rewrite", s1)>>] }
          \cup
          { LET s2 == [s1 EXCEPT !.emotion = Str(EmotionKeywords(EmotionPlain)),
                                 !.messages = AddMessage(s1, "emotion_analyst", EmotionPlain)]
                s3 == cbt_agent_node(s2, x[1])
                s4 == resource_schedule_node(s3, x[2])
            IN  [state |-> s4, pc |-> "ethical_guardian",
                 invoked |-> <<"rewrite", "emotion_analysis", "cbt_agent", "resource_schedule">>,
                 returned |-> <<Returned("rewrite", rw), Returned("emotion_analysis", EmotionPlain),
                                Returned("cbt_agent", x[1]), Returned("resource_schedule", x[2])>>,
                 done |-> <<Done("rewrite", s1), Done("emotion_analysis", s2),
                            Done("cbt_agent", s3), Done("resource_schedule", s4)>>]
            : x \in CbtTexts \X ScheduleTexts }
        : rw \in RewriteTexts }

DecodeInit ==
  /\ err = "none" /\ factories = StubFactories /\ capFailed = FALSE
  /\ response = NoResponse
  /\ NoRequests
  /\ \E e \in Entering :
       /\ state = e.state /\ pc = e.pc
       /\ invoked = e.invoked /\ returned = e.returned /\ done = e.done

emotion_analysis_decoding ==
  /\ pc = "emotion_analysis"
  /\ Stage("emotion_analysis", DecodeEmotionTexts,
           {c \in DecodeEmotionTexts : GetRaises(c)},
           [c \in DecodeEmotionTexts |-> emotion_analysis_node(state, c)])

ethical_guardian_decoding ==
  /\ pc = "ethical_guardian"
  /\ Stage("ethical_guardian", DecodeEthicalTexts,
           {c \in DecodeEthicalTexts : GetRaises(c)},
           [c \in DecodeEthicalTexts |-> ethical_guardian_node(state, c)])

DecodeNext ==
  \/ emotion_analysis_decoding
  \/ ethical_guardian_decoding
  \/ increment_retry

DecodeSpec == DecodeInit /\ [][DecodeNext]_vars

\* case-insensitive occurrence, letter by letter
Lowers ==
  <<"a","b","c","d","e","f","g","h","i","j","k","l","m","n","o","p","q","r","s","t","u","v","w","x","y","z">>

Uppers ==
  <<"A","B","C","D","E","F","G","H","I","J","K","L","M","N","O","P","Q","R","S","T","U","V","W","X","Y","Z">>

SameLetter(a, b) == a = b \/ \E i \in 1..26 : {a, b} = {Lowers[i], Uppers[i]}

Occurs(word, text) ==
  \E k \in 0..(Len(text) - Len(word)) :
    \A j \in 1..Len(word) : SameLetter(word[j], text[k + j])

\* the answers of capability `node` so far, in order
Answers(node) ==
  LET Of(e) == e.node = node
      r == SelectSeq(returned, Of)
  IN  [i \in 1..Len(r) |-> r[i].content]

\* the stage `node` has committed its latest answer, which was no JSON text
FellBack(node) ==
  /\ Answers(node) # <<>>
  /\ Count(done, node) = Len(Answers(node))
  /\ ~JsonLoads(Answers(node)[Len(Answers(node))]).ok

LastAnswer(node) == Answers(node)[Len(Answers(node))]

(* ----------------------------- C15 ------------------------------------- *)

\* the rules of the claim, in their order
EmotionRules ==
  << [words |-> {W_anxiety}, emotion |-> W_anxiety],
     [words |-> {W_depression, W_sad}, emotion |-> W_sadness],
     [words |-> {W_anger, W_angry}, emotion |-> W_anger],
     [words |-> {W_fear, W_scared}, emotion |-> W_fear],
     [words |-> {W_joy, W_happy}, emotion |-> W_joy] >>

FirstRule(text) ==
  LET m == {i \in 1..Len(EmotionRules) : \E w \in EmotionRules[i].words : Occurs(w, text)}
  IN  IF m = {} THEN W_neutral
      ELSE EmotionRules[CHOOSE i \in m : \A j \in m : i <= j].emotion

\* C15: when the answer of the EmotionAnalysis capability is no JSON text,
\* emotion is the label of the first rule, in the fixed order anxiety;
\* depression or sad; anger or angry; fear or scared; joy or happy, one of
\* whose words occurs in the answer case-insensitively, and "neutral" when
\* none does; an answer with both anxiety and depression gives "anxiety".
C15_FirstMatchingRule ==
  FellBack("emotion_analysis") =>
    state.emotion = Str(FirstRule(LastAnswer("emotion_analysis")))

\* an answer naming depression before Anxiety was labelled anxiety
C15_AnxietyWins ==
  /\ FellBack("emotion_analysis")
  /\ LastAnswer("emotion_analysis") = Join(<<W_depression, <<"A","n","x","i","e","t","y">> >>)
  /\ state.emotion = Str(W_anxiety)

(* ----------------------------- C16 ------------------------------------- *)

\* C16: when the answer of the EthicalReview capability is no JSON text,
\* ethical_check is false and ethical_feedback is "Ethical concerns
\* identified in response" exactly when the answer contains, in any case,
\* one of harmful, inappropriate, unethical, dangerous; otherwise
\* ethical_check is true and ethical_feedback is "Ethical review completed".
C16_MarkerHeuristic ==
  FellBack("ethical_guardian") =>
    IF \E i \in 1..Len(EthicalMarkers) : Occurs(EthicalMarkers[i], LastAnswer("ethical_guardian"))
    THEN state.ethical_check = PyFalse /\ state.ethical_feedback = Str(ConcernsIdentified)
    ELSE state.ethical_check = PyTrue /\ state.ethical_feedback = Str(ReviewCompleted)

\* an answer with a marker in capitals was taken as a rejection
C16_CapitalMarker ==
  /\ FellBack("ethical_guardian")
  /\ LastAnswer("ethical_guardian") = Join(<<<<"s","a","f","e">>, <<"D","A","N","G","E","R","O","U","S">> >>)
  /\ state.ethical_check = PyFalse
  /\ pc = "increment_retry"

(* -------------------- requests served at the same time ----------------- *)
(* Two calls of query_endpoint, each from its own GraphBuilder() and       *)
(* initial_state. The compiled graph runs in steps: the nodes scheduled    *)
(* for a step are started, each works on the state the step began with,    *)
(* and when all have returned their results are written and the edges      *)
(* give the nodes of the next step. A stage is split into the start of     *)
(* its capability call and the call's return or failure. The factories     *)
(* are the stub ones.                                                      *)

\* the variables of the single execution
single == <<state, pc, err, factories, invoked, returned, capFailed, done, response>>

\* graph_builder, react_app and initial_state kept at module level
Slot_shared(r) == 1

\* main.py:27-42: graph_builder, react_app and initial_state are locals of
\* the call, so request r works on an execution of its own
Slot(r) == r

\* the answers of the capabilities
ConcTexts(node) ==
  CASE node = "rewrite" -> RewriteTexts
    [] node = "emotion_analysis" -> {EmotionPlain}
    [] node = "cbt_agent" -> {<<"c", "1">>}
    [] node = "resource_schedule" -> {<<"s", "1">>}
    [] node = "ethical_guardian" -> {EthicalPass, EthicalReject}
    [] node = "writer" -> {<<"o", "k">>}

\* the dict node returns on state st, content being the capability's answer
Apply(node, st, content) ==
  CASE node = "rewrite" -> rewrite_node(st, content)
    [] node = "emotion_analysis" -> emotion_analysis_node(st, content)
    [] node = "cbt_agent" -> cbt_agent_node(st, content)
    [] node = "resource_schedule" -> resource_schedule_node(st, content)
    [] node = "ethical_guardian" -> ethical_guardian_node(st, content)
    [] node = "writer" -> writer_agent_node(st, content)
    [] node = "increment_retry" -> increment_retry_counter(st)
    [] node = "max_retries_handler" -> handle_max_retries(st)

\* build_graph with a second edge emotion_analysis -> resource_schedule
Targets_fanout(node, st) ==
  IF node = "emotion_analysis" THEN {"cbt_agent", "resource_schedule"}
  ELSE {Successor(node, st)} \ {"END"}

\* the nodes the edges schedule after `node` returned st
Targets(node, st) == {Successor(node, st)} \ {"END"}

Written(slot) == {w.node : w \in slot.writes}

\* query_endpoint is called: a fresh graph and the initial_state literal
receive(r) ==
  /\ requests[r].at = "idle"
  /\ slots' = [slots EXCEPT ![Slot(r)] =
                 [state |-> InitialState(Query(r)), active |-> {"rewrite"},
                  calls |-> {}, writes |-> {}, err |-> "none"]]
  /\ requests' = [requests EXCEPT ![r].at = "invoked"]
  /\ UNCHANGED single

\* a scheduled stage creates its agent and calls agent.invoke(state)
call(r) ==
  LET slot == slots[Slot(r)] IN
  /\ requests[r].at = "invoked" /\ slot.err = "none"
  /\ \E n \in (slot.active \cap Stages) \ (slot.calls \cup Written(slot)) :
       slots' = [slots EXCEPT ![Slot(r)].calls = slot.calls \cup {n}]
  /\ UNCHANGED <<requests, single>>

\* agent.invoke returns: the node computes its dict from the state of the step
return(r) ==
  LET slot == slots[Slot(r)] IN
  /\ requests[r].at = "invoked" /\ slot.err = "none"
  /\ \E n \in slot.calls : \E content \in ConcTexts(n) :
       /\ slots' = [slots EXCEPT
                      ![Slot(r)].calls = slot.calls \ {n},
                      ![Slot(r)].writes = slot.writes \cup
                          {[node |-> n, st |-> Apply(n, slot.state, content)]}]
       /\ requests' = [requests EXCEPT ![r].log = Append(@, Returned(n, content))]
  /\ UNCHANGED single

\* agent.invoke raises: the exception leaves react_app.invoke
fail(r) ==
  LET slot == slots[Slot(r)] IN
  /\ requests[r].at = "invoked" /\ slot.err = "none"
  /\ \E n \in slot.calls :
       slots' = [slots EXCEPT ![Slot(r)].calls = slot.calls \ {n},
                              ![Slot(r)].err = "CapabilityError"]
  /\ UNCHANGED <<requests, single>>

\* a scheduled node that calls no capability runs
plain(r) ==
  LET slot == slots[Slot(r)] IN
  /\ requests[r].at = "invoked" /\ slot.err = "none"
  /\ \E n \in (slot.active \ Stages) \ Written(slot) :
       slots' = [slots EXCEPT ![Slot(r)].writes = slot.writes \cup
                   {[node |-> n, st |-> Apply(n, slot.state, <<>>)]}]
  /\ UNCHANGED <<requests, single>>

\* every node of the step has returned: the results are written and the
\* edges followed; two nodes writing the same key in one step is an error
commit(r) ==
  LET slot == slots[Slot(r)] IN
  /\ requests[r].at = "invoked" /\ slot.err = "none"
  /\ slot.active # {} /\ Written(slot) = slot.active
  /\ IF Cardinality(slot.writes) = 1
     THEN \E w \in slot.writes :
            slots' = [slots EXCEPT ![Slot(r)].state = w.st,
                                   ![Slot(r)].active = Targets(w.node, w.st),
                                   ![Slot(r)].writes = {}]
     ELSE slots' = [slots EXCEPT ![Slot(r)].err = "InvalidUpdateError",
                                 ![Slot(r)].writes = {}]
  /\ UNCHANGED <<requests, single>>

\* main.py:44-54: react_app.invoke returned or raised, the call answers
respond(r) ==
  LET slot == slots[Slot(r)] IN
  /\ requests[r].at = "invoked"
  /\ \/ /\ slot.err = "none" /\ slot.active = {}
        /\ requests' = [requests EXCEPT
                          ![r].at = "answered",
                          ![r].response = [status |-> 200, key |-> "answer",
                                           text |-> slot.state.final_output]]
     \/ /\ slot.err # "none"
        /\ requests' = [requests EXCEPT
                          ![r].at = "answered",
                          ![r].response = [status |-> 500, key |-> "error", text |-> <<>>]]
  /\ UNCHANGED <<slots, single>>

ConcInit ==
  /\ Init
  /\ factories = StubFactories
  /\ state = InitialState(Query(1))

ConcNext ==
  \/ \E r \in Requests : receive(r)
  \/ \E r \in Requests : call(r)
  \/ \E r \in Requests : return(r)
  \/ \E r \in Requests : fail(r)
  \/ \E r \in Requests : plain(r)
  \/ \E r \in Requests : commit(r)
  \/ \E r \in Requests : respond(r)

ConcSpec == ConcInit /\ [][ConcNext]_vars

(* ----------------------------- C18 ------------------------------------- *)

\* the execution run alone on the answers `log`: the state it ends in and
\* the node it is at when the answers are used up
RECURSIVE Alone(_, _, _)
Alone(st, node, log) ==
  IF node = "END" THEN [state |-> st, node |-> node]
  ELSE IF node \notin Stages
       THEN LET st2 == Apply(node, st, <<>>) IN Alone(st2, Successor(node, st2), log)
       ELSE IF log = <<>> \/ Head(log).node # node THEN [state |-> st, node |-> node]
            ELSE LET st2 == Apply(node, st, Head(log).content)
                 IN  Alone(st2, Successor(node, st2), Tail(log))

Failed(r) == slots[r].err # "none"

\* C18: two executions running at the same time for different queries do not
\* interfere: each request has its own executor and state, a step of one
\* leaves the other's untouched, and under every interleaving the result of
\* each is the result of running alone on the capability answers it got.
C18_NoInterference ==
  /\ [](\A r \in Requests :
          LET alone == Alone(InitialState(Query(r)), "rewrite", requests[r].log) IN
          /\ requests[r].at # "idle" => slots[r].state.user_query = Query(r)
          /\ (requests[r].at # "idle" /\ ~Failed(r) /\ slots[r].active = {}) =>
               (alone.node = "END" /\ slots[r].state = alone.state)
          /\ requests[r].at = "answered" =>
               requests[r].response =
                 IF Failed(r) THEN [status |-> 500, key |-> "error", text |-> <<>>]
                 ELSE [status |-> 200, key |-> "answer", text |-> alone.state.final_output])
  /\ [][\E r \in Requests : \A o \in Requests \ {r} :
          slots'[o] = slots[o] /\ requests'[o] = requests[o]]_vars

\* both requests are answered, one with the fallback text after four
\* attempts and the other with the Writer's text
C18_BothAnswered ==
  /\ requests[1].response = [status |-> 200, key |-> "answer", text |-> FallbackText]
  /\ requests[2].response = [status |-> 200, key |-> "answer", text |-> <<"o", "k">>]
  /\ Len(requests[1].log) = 14 /\ Len(requests[2].log) = 6
  /\ slots[1].state.user_query # slots[2].state.user_query

(* ----------------------------- C19 ------------------------------------- *)

\* C19: within one execution at most one stage is active and at most one
\* capability call is in flight at any time: a stage starts only after the
\* previous stage's update is committed, and the routing after EthicalReview
\* is taken only after its capability call has completed or failed.
C19_OneStageAtATime ==
  /\ [](\A r \in Requests :
          /\ Cardinality(slots[r].active) <= 1
          /\ Cardinality(slots[r].calls) <= 1
          /\ slots[r].calls \subseteq slots[r].active
          /\ slots[r].calls # {} => slots[r].writes = {})
  /\ [][\A r \in Requests :
          /\ (slots'[r].calls # slots[r].calls /\ slots'[r].calls # {}) =>
               (slots[r].calls = {} /\ slots[r].writes = {})
          /\ (slots[r].active = {"ethical_guardian"} /\ slots'[r].active # slots[r].active) =>
               /\ slots[r].calls = {}
               /\ Written(slots[r]) = {"ethical_guardian"}
               /\ requests[r].log # <<>>
               /\ requests[r].log[Len(requests[r].log)].node = "ethical_guardian"
               /\ slots'[r].active \subseteq {"writer", "increment_retry", "max_retries_handler"}
          /\ (slots'[r].err # "none" /\ slots[r].err = "none") =>
               slots'[r].active = slots[r].active]_vars

\* each execution has one call in flight, one of them in its third attempt
C19_CallsInFlight ==
  /\ slots[1].calls = {"cbt_agent"} /\ slots[1].state.retry_count = 2
  /\ slots[2].calls = {"ethical_guardian"}

(* ----------------------------- C20 ------------------------------------- *)

\* C20: IncrementRetry sets retry_count to retry_count + 1 and leaves every
\* other field unchanged; it runs only immediately after an EthicalReview
\* that left ethical_check false while retry_count < 3.
C20_IncrementRetry ==
  [][ Completes("increment_retry") =>
        /\ state'.retry_count = state.retry_count + 1
        /\ DOMAIN state' = DOMAIN state
        /\ \A f \in (DOMAIN state) \ {"retry_count"} : state'[f] = state[f]
        /\ returned' = returned
        /\ done # <<>>
        /\ done[Len(done)].node = "ethical_guardian"
        /\ done[Len(done)].ethical_check = PyFalse
        /\ state.ethical_check = PyFalse
        /\ state.retry_count < MaxRetries ]_vars

(* ----------------------------- C21 ------------------------------------- *)

\* the place of a node in the forward order of the graph
Rank(node) ==
  CASE node = "rewrite" -> 1
    [] node = "emotion_analysis" -> 2
    [] node = "cbt_agent" -> 3
    [] node = "resource_schedule" -> 4
    [] node = "ethical_guardian" -> 5
    [] node \in {"writer", "increment_retry", "max_retries_handler"} -> 6
    [] node = "END" -> 7

\* C21: the only backward edge is IncrementRetry -> TherapeuticResponse:
\* Rewrite and EmotionAnalysis are each invoked at most once (once when no
\* error comes before them), Rewrite is the first stage invoked, and
\* TherapeuticResponse, ScheduleRecommendation and EthicalReview are invoked
\* in that order, with equal counts whenever an attempt completes.
C21_OneBackwardEdge ==
  /\ [](/\ Started("rewrite") <= 1 /\ Started("emotion_analysis") <= 1
        /\ invoked # <<>> => invoked[1] = "rewrite"
        /\ Started("cbt_agent") > 0 =>
             (Started("rewrite") = 1 /\ Started("emotion_analysis") = 1)
        /\ \A i \in 1..Len(invoked) :
             /\ invoked[i] = "emotion_analysis" => (i > 1 /\ invoked[i - 1] = "rewrite")
             /\ invoked[i] = "cbt_agent" =>
                  (i > 1 /\ invoked[i - 1] \in {"emotion_analysis", "increment_retry"})
             /\ invoked[i] = "resource_schedule" => (i > 1 /\ invoked[i - 1] = "cbt_agent")
             /\ invoked[i] = "ethical_guardian" =>
                  (i > 1 /\ invoked[i - 1] = "resource_schedule")
        /\ (done # <<>> /\ done[Len(done)].node = "ethical_guardian") =>
             /\ Count(done, "cbt_agent") = Count(done, "ethical_guardian")
             /\ Count(done, "resource_schedule") = Count(done, "ethical_guardian")
             /\ Started("cbt_agent") = Started("ethical_guardian")
             /\ Started("resource_schedule") = Started("ethical_guardian"))
  /\ [][pc' # pc =>
          \/ Rank(pc') > Rank(pc)
          \/ pc = "increment_retry" /\ pc' = "cbt_agent"]_vars

\* the backward edge was taken three times and the fourth attempt completed
C21_FourAttempts ==
  /\ done # <<>> /\ done[Len(done)].node = "ethical_guardian"
  /\ Count(done, "ethical_guardian") = 4
  /\ Started("rewrite") = 1 /\ Started("emotion_analysis") = 1

(* -------------------- the requests of the agents ----------------------- *)
(* dynamic_prompt of each factory: the messages the agent sends to the     *)
(* model for a state; the system prompt is a constant of the factory.      *)

HumanMessage(content) == [type |-> "human", content |-> content]

SystemMessage(name) == [type |-> "system", content |-> name]

\* dynamic_prompt telling the model why the last response was rejected
cbt_dynamic_prompt_feedback(st) ==
  << SystemMessage("CBT_AGENT_PROMPT"),
     HumanMessage(<<"Q","u","e","r","y",":"," ">> \o st.rewritten_query
                  \o <<"\n","E","m","o","t","i","o","n",":"," ">> \o st.emotion.v
                  \o <<"\n","F","e","e","d","b","a","c","k",":"," ">> \o st.ethical_feedback.v) >>

\* cbt_agent.py:36-40
cbt_dynamic_prompt(st) ==
  << SystemMessage("CBT_AGENT_PROMPT"),
     HumanMessage(<<"Q","u","e","r","y",":"," ">> \o st.rewritten_query
                  \o <<"\n","E","m","o","t","i","o","n",":"," ">> \o st.emotion.v) >>

\* ethical_guardian_agent.py:39-43
ethical_guardian_dynamic_prompt(st) ==
  << SystemMessage("ETHICAL_GUARDIAN_PROMPT"),
     HumanMessage(<<"C","B","T"," ","R","e","s","p","o","n","s","e",":"," ">> \o st.cbt_response
                  \o <<"\n","S","c","h","e","d","u","l","e",":"," ">> \o st.schedule_recommendation) >>

\* writer_agent.py:32-36
writer_dynamic_prompt(st) ==
  << SystemMessage("WRITER_AGENT_PROMPT"),
     HumanMessage(<<"C","B","T"," ","R","e","s","p","o","n","s","e",":"," ">> \o st.cbt_response
                  \o <<"\n","S","c","h","e","d","u","l","e",":"," ">> \o st.schedule_recommendation
                  \o <<"\n","E","m","o","t","i","o","n",":"," ">> \o st.emotion.v) >>

(* ----------------------------- C22 ------------------------------------- *)

\* C22: on every retry TherapeuticResponse runs with the rewritten_query and
\* emotion of the first attempt: both fields are unchanged from the
\* completion of EmotionAnalysis to termination, and the request built for
\* TherapeuticResponse depends on these two fields only, so it is the same
\* on every attempt of one execution.
C22_SameRequestOnRetry ==
  [][ Count(done, "emotion_analysis") >= 1 =>
        /\ state'.rewritten_query = state.rewritten_query
        /\ state'.emotion = state.emotion
        /\ cbt_dynamic_prompt(state') = cbt_dynamic_prompt(state) ]_vars

\* the fourth attempt is due after three rejections with feedback, and
\* the rejected responses were not all the same
C22_FourthRequest ==
  /\ pc = "cbt_agent" /\ state.retry_count = 3
  /\ state.ethical_feedback = Str(ConcernsIdentified)
  /\ Len(CbtAnswers) = 3 /\ CbtAnswers[1] # CbtAnswers[3]
  /\ state.emotion = Str(W_joy)

(* ----------------------------- C23 ------------------------------------- *)

\* the stage `node` has committed its latest answer
Committed(node) ==
  Answers(node) # <<>> /\ Count(done, node) = Len(Answers(node))

\* answers that are JSON objects with the expected fields, and the fields
EmotionPayloads ==
  { [text |-> EmotionJson, emotion |-> Str(W_joy)],
    [text |-> EmotionMarked, emotion |-> Str(<<"c","a","l","m">>)] }

EthicalPayloads ==
  { [text |-> EthicalPass, ethical |-> PyTrue, feedback |-> Str(<<"f","i","n","e">>)],
    [text |-> EthicalReject, ethical |-> PyFalse, feedback |-> Str(<<"h","a","r","m","f","u","l">>)],
    [text |-> EthicalMarked, ethical |-> PyTrue,
     feedback |-> Str(<<"n","o","t"," ","h","a","r","m","f","u","l">>)] }

\* C23: when the capability's answer parses as structured data with the
\* expected fields, the fields are used verbatim and the keyword heuristic is
\* not consulted: emotion is the payload's emotion, ethical_check its
\* ethical and ethical_feedback its feedback, marker words in the text or not.
C23_PayloadVerbatim ==
  /\ \A p \in EmotionPayloads :
       (Committed("emotion_analysis") /\ LastAnswer("emotion_analysis") = p.text) =>
         state.emotion = p.emotion
  /\ \A p \in EthicalPayloads :
       (Committed("ethical_guardian") /\ LastAnswer("ethical_guardian") = p.text) =>
         (state.ethical_check = p.ethical /\ state.ethical_feedback = p.feedback)

\* a review approving with the word harmful in its feedback went to Writer
C23_MarkedApproval ==
  /\ Committed("ethical_guardian")
  /\ LastAnswer("ethical_guardian") = EthicalMarked
  /\ state.ethical_check = PyTrue
  /\ EthicalConcern(EthicalMarked)
  /\ pc = "writer"

(* ----------------------------- C24 ------------------------------------- *)

\* C24: ethical_check is a boolean, true or false, in every reachable state,
\* whatever the EthicalReview capability returns, so that the test
\* ethical_check == true and the truthiness test of supervisor_routing pick
\* the same branch.
C24_EthicalCheckBoolean ==
  /\ state.ethical_check \in {PyTrue, PyFalse}
  /\ (state.ethical_check = PyTrue) <=> Truthy(state.ethical_check)

(* ----------------------------- C25 ------------------------------------- *)

\* how many times a terminal node has written final_output
FinalWrites == Count(done, "writer") + Count(done, "max_retries_handler")

\* C25: final_output keeps its entry value, the empty text, in every state
\* before a terminal stage runs; a non-failing execution writes it exactly
\* once, by exactly one of Writer and FallbackHandler, never both, and no
\* stage or step runs after that write.
C25_FinalOutputOnce ==
  /\ [](/\ FinalWrites = 0 => state.final_output = <<>>
        /\ FinalWrites <= 1
        /\ Ended => FinalWrites = 1
        /\ FinalWrites = 1 =>
             /\ pc = "END"
             /\ done[Len(done)].node \in {"writer", "max_retries_handler"}
             /\ invoked[Len(invoked)] = done[Len(done)].node)
  /\ [][ /\ state'.final_output # state.final_output =>
              (Completes("writer") \/ Completes("max_retries_handler"))
         /\ FinalWrites = 1 =>
              (state' = state /\ pc' = pc /\ invoked' = invoked /\ done' = done
               /\ returned' = returned) ]_vars

\* the Writer wrote final_output after a retry and the handler has answered
C25_WrittenByWriter ==
  /\ Count(done, "writer") = 1 /\ Count(done, "max_retries_handler") = 0
  /\ state.final_output = <<"o", "k">> /\ state.retry_count = 2
  /\ response.status = 200

(* ----------------------------- C26 ------------------------------------- *)

\* the executor has scheduled TherapeuticResponse and has not called it yet
CbtDue == pc = "cbt_agent" /\ err = "none"

Starts(n) == invoked' = Append(invoked, n)

\* the last step committed was an EthicalReview whose verdict is still the
\* ethical_check of the state, and passes (pass = TRUE) or fails the router
LastReviewed(pass) ==
  /\ Len(done) > 0 /\ Len(invoked) > 0
  /\ done[Len(done)].node = "ethical_guardian"
  /\ invoked[Len(invoked)] = "ethical_guardian"
  /\ done[Len(done)].ethical_check = state.ethical_check
  /\ Truthy(state.ethical_check) = pass

\* how many completed EthicalReview invocations left a failing ethical_check
Rejections ==
  Cardinality({i \in 1..Len(done) : /\ done[i].node = "ethical_guardian"
                                     /\ ~Truthy(done[i].ethical_check)})

\* C27: Writer is entered and started only directly after an EthicalReview
\* that left a passing ethical_check, never on the default of the entry
\* state; FallbackHandler is entered and started only directly after a failing
\* EthicalReview with retry_count = 3, all four attempts having been rejected
C27_TerminalsFollowReview ==
  /\ [](/\ (pc = "writer" /\ err = "none") => LastReviewed(TRUE)
        /\ (pc = "max_retries_handler" /\ err = "none") =>
             /\ LastReviewed(FALSE)
             /\ state.retry_count = MaxRetries
             /\ Rejections = MaxRetries + 1
             /\ Count(done, "ethical_guardian") = MaxRetries + 1)
  /\ [][ /\ Starts("writer") => LastReviewed(TRUE)
         /\ Starts("max_retries_handler") =>
              /\ LastReviewed(FALSE)
              /\ state.retry_count = MaxRetries
              /\ Rejections = MaxRetries + 1 ]_vars

\* the Writer ran on the approval that followed one rejection
C27_ApprovedSecondAttempt ==
  /\ Started("writer") = 1
  /\ Rejections = 1
  /\ Count(done, "ethical_guardian") = 2
  /\ Truthy(state.ethical_check)
  /\ state.retry_count = 1
  /\ pc = "END" /\ err = "none"

(* ----------------------------- C28 ------------------------------------- *)

\* the i-th capability answer from the end of the log is an answer of `node`
AnswerOf(i, node) ==
  /\ Len(returned) > i
  /\ returned[Len(returned) - i].node = node

\* the state with the pair of answers found i + 1 and i places from the end
\* of the capability log as therapeutic response and schedule
WithPair(i) ==
  [state EXCEPT !.cbt_response = returned[Len(returned) - i - 1].content,
                !.schedule_recommendation = returned[Len(returned) - i].content]

\* C28: whenever EthicalReview is about to run, the schedule in its request
\* is the answer of the ScheduleRecommendation call made last, which followed
\* the TherapeuticResponse call made last, whose answer is the response in
\* the request; whenever Writer is about to run, the review that ran last
\* examined that same pair and the Writer's request carries exactly it; a
\* review leaves the pair it examined untouched.
C28_FreshPairReviewed ==
  /\ []((pc = "ethical_guardian" /\ err = "none") =>
          /\ AnswerOf(0, "resource_schedule") /\ AnswerOf(1, "cbt_agent")
          /\ state = WithPair(0)
          /\ ethical_guardian_dynamic_prompt(state) =
               ethical_guardian_dynamic_prompt(WithPair(0)))
  /\ []((pc = "writer" /\ err = "none") =>
          /\ AnswerOf(0, "ethical_guardian")
          /\ AnswerOf(1, "resource_schedule") /\ AnswerOf(2, "cbt_agent")
          /\ state = WithPair(1)
          /\ writer_dynamic_prompt(state) = writer_dynamic_prompt(WithPair(1))
          /\ Truthy(state.ethical_check))
  /\ [][ Completes("ethical_guardian") =>
           /\ ethical_guardian_dynamic_prompt(state') =
                ethical_guardian_dynamic_prompt(state)
           /\ state'.cbt_response = state.cbt_response
           /\ state'.schedule_recommendation = state.schedule_recommendation ]_vars

\* the Writer is due on the pair of the second attempt, which differs in
\* both parts from the rejected pair of the first
C28_SecondPairComposed ==
  /\ pc = "writer" /\ err = "none"
  /\ Len(returned) = 8
  /\ returned[3].content = <<"c","1">> /\ returned[4].content = <<"s","1">>
  /\ state.cbt_response = <<"c","2">>
  /\ state.schedule_recommendation = <<"s","2">>

(* ----------------------------- C29 ------------------------------------- *)

\* the roles of the trace of an execution in which all four attempts were
\* rejected
FallbackRoles ==
  LET attempt == <<"cbt_agent", "resource_schedule", "ethical_guardian">>
  IN  <<"rewrite", "emotion_analyst">>
        \o attempt \o attempt \o attempt \o attempt

\* the node steps of the run that ends at FallbackHandler: two opening
\* stages, four attempts of three stages, three IncrementRetry steps and the
\* FallbackHandler
LongestRun == 2 + (MaxRetries + 1) * 3 + MaxRetries + 1

\* the trace once FallbackHandler has run: 14 entries, none of role writer
FallbackTrace ==
  /\ Roles = FallbackRoles
  /\ Len(state.messages) = 14
  /\ \A i \in 1..Len(state.messages) : state.messages[i].role # "writer"

\* C29, as stated: an execution that ends at FallbackHandler has a trace of
\* exactly 14 entries, none of role writer; no execution performs more than
\* 19 node steps, and the run of 2 + 4*3 stage invocations, 3 IncrementRetry
\* and 1 FallbackHandler, the longest of the graph, performs 19
C29_LongestRunNineteen ==
  /\ FallbackRan => FallbackTrace
  /\ Len(invoked) <= 19
  /\ (Ended /\ FallbackRan) => Len(done) = 19

\* C29, amended: once FallbackHandler has run, the trace has exactly the 14
\* entries rewrite, emotion_analyst and four times cbt_agent,
\* resource_schedule, ethical_guardian, none of role writer, and 18 node
\* steps were performed (2 + 4*3 + 3 + 1); no execution starts or completes
\* more than 18 node steps.
C29_FallbackTraceAndLongestRun ==
  /\ FallbackRan =>
       /\ FallbackTrace
       /\ Len(done) = LongestRun
       /\ Len(invoked) = LongestRun
  /\ Len(invoked) <= LongestRun
  /\ Len(done) <= Len(invoked)
  /\ LongestRun = 18

\* the execution ended at FallbackHandler after 18 node steps, the Writer
\* never started
C29_EighteenSteps ==
  /\ Ended /\ FallbackRan
  /\ Len(done) = 18
  /\ Started("writer") = 0
  /\ Len(Roles) = 14

(* ----------------------------- C30 ------------------------------------- *)

\* answers that are JSON objects without the key the stage reads
EmotionKeyless == {EmotionNoKey, EmotionNoKeyMarked}

EthicalKeyless == {EthicalNoKeyMarked, EthicalEmpty}

\* C30: an answer that is a JSON object without the expected key gets the
\* default and the keyword heuristic is not run: EmotionAnalysis leaves
\* emotion "neutral" whatever emotion words the text holds, and EthicalReview
\* leaves ethical_check true and ethical_feedback empty and the graph goes on
\* to Writer, whatever marker words the text holds.
C30_KeylessObjectDefaults ==
  /\ \A t \in EmotionKeyless :
       (Committed("emotion_analysis") /\ LastAnswer("emotion_analysis") = t) =>
         state.emotion = Str(<<"n","e","u","t","r","a","l">>)
  /\ \A t \in EthicalKeyless :
       (Committed("ethical_guardian") /\ LastAnswer("ethical_guardian") = t) =>
         /\ state.ethical_check = PyTrue
         /\ state.ethical_feedback = Str(<<>>)
         /\ pc = "writer"

\* a review object without the keys, holding the words harmful and
\* dangerous, was approved and sent on to the Writer
C30_MarkedKeylessApproved ==
  /\ Committed("ethical_guardian")
  /\ LastAnswer("ethical_guardian") = EthicalNoKeyMarked
  /\ Occurs(<<"h","a","r","m","f","u","l">>, EthicalNoKeyMarked)
  /\ Occurs(<<"d","a","n","g","e","r","o","u","s">>, EthicalNoKeyMarked)
  /\ state.ethical_check = PyTrue
  /\ state.ethical_feedback = Str(<<>>)
  /\ pc = "writer"

====
